---- MODULE Spec2Model ----
(***************************************************************************)
(* Gradle plugin of nx: inference of project targets from the gradle       *)
(* report (createNodes, createGradleTargets, createInputsMap) and the      *)
(* targets cache (targetsCache, calculatedTargets, gradle.hash).           *)
(***************************************************************************)
EXTENDS Integers, Sequences, FiniteSets, TLC

VARIABLES
    cacheFile,          \* the JSON document at cachePath: [exists, content]
    targetsCache,       \* module constant read once when the process starts
    calculatedTargets,  \* exported module-level record hash -> bundle
    fileVersion,        \* content version of the files under each project root
    report,             \* what getGradleReport() returns in this workspace
    pluginOptions,      \* the options object handed to createNodes
    context,            \* CreateNodesContext (nxJsonConfiguration.namedInputs)
    last,               \* observation of the latest createNodes invocation
    touched,            \* hashes of this process's cache hits and stored misses
    run,                \* number of the current process
    calls,              \* createNodes invocations made so far
    engine              \* inputs and result of a direct createGradleTargets call

vars == <<cacheFile, targetsCache, calculatedTargets, fileVersion, report,
          pluginOptions, context, last, touched, run, calls, engine>>

(***************************************************************************)
(* Bounds                                                                  *)
(***************************************************************************)
MaxRuns == 2
MaxCalls == 2
MaxTasks == 2

(***************************************************************************)
(* JavaScript values                                                       *)
(***************************************************************************)
\* An optional property of an object: not an own property at all, an own
\* property holding undefined, an array of strings, or a member inherited
\* from Object.prototype (a function such as Object or toString).
Absent == [tag |-> "absent", items |-> << >>]
Undefined == [tag |-> "undefined", items |-> << >>]
Arr(s) == [tag |-> "array", items |-> s]
Inherited(k) == [tag |-> "function", items |-> <<k>>]

\* Reading property k of an object: a missing own property reads as undefined.
Get(v) == IF v = Absent THEN Undefined ELSE v

EmptyObj == [k \in {} |-> Undefined]

\* Names every plain object inherits from Object.prototype.
ObjectPrototypeKeys == {"constructor", "toString"}

\* obj[key] on an object literal whose own properties are the entries of map.
Lookup(map, key) ==
    IF key \in DOMAIN map THEN Arr(map[key])
    ELSE IF key \in ObjectPrototypeKeys THEN Inherited(key)
    ELSE Undefined

(***************************************************************************)
(* Module constants of the plugin                                          *)
(***************************************************************************)
cacheableTaskTypeAll == {"Build", "Verification", "Other"}

cacheableTaskType == {"Build", "Verification"}

dependsOnMap ==
    [build |-> <<"^build", "classes">>,
     test |-> <<"classes">>,
     classes |-> <<"^classes">>]

gradleFile == "./gradlew"

(***************************************************************************)
(* createInputsMap                                                         *)
(***************************************************************************)
\* namedInputs?.production
HasProduction(ctx) ==
    ctx.namedInputs.defined /\ "production" \in ctx.namedInputs.presets

createInputsMap(ctx) ==
    [build |-> IF HasProduction(ctx) THEN <<"production", "^production">>
               ELSE <<"default", "^default">>,
     test |-> <<"default",
                IF HasProduction(ctx) THEN "^production" ELSE "^default">>,
     classes |-> <<"default", "^default">>]

(***************************************************************************)
(* createGradleTargets                                                     *)
(***************************************************************************)
\* options?.[`${task.name}TargetName`] ?? task.name ; the option key
\* <name>TargetName is represented by <name>.
TargetName(options, task) ==
    IF options.defined /\ task.name \in DOMAIN options.map
    THEN options.map[task.name]
    ELSE task.name

\* offsetFromRoot(projectRoot): one ".." per segment of the project root.
offsetFromRoot(projectRoot) == [i \in 1..Len(projectRoot) |-> ".."]

\* outputs ? [outputs] : undefined, with outputs = outputDirs.get(task.name)
Outputs(outputDirs, task) ==
    IF task.name \in DOMAIN outputDirs.map /\ outputDirs.map[task.name] # ""
    THEN Arr(<<outputDirs.map[task.name]>>)
    ELSE Undefined

TargetOfRenamed(task, projectRoot, options, ctx, outputDirs) ==
    [command |-> [path |-> offsetFromRoot(projectRoot),
                  gradleFile |-> gradleFile,
                  task |-> TargetName(options, task)],
     options |-> [cwd |-> "{projectRoot}"],
     cache |-> task.type \in cacheableTaskType,
     inputs |-> Lookup(createInputsMap(ctx), TargetName(options, task)),
     outputs |-> Outputs(outputDirs, task),
     dependsOn |-> Lookup(dependsOnMap, TargetName(options, task))]

\* The object literal assigned to targets[targetName].
TargetOf(task, projectRoot, options, ctx, outputDirs) ==
    [command |-> [path |-> offsetFromRoot(projectRoot),
                  gradleFile |-> gradleFile,
                  task |-> task.name],
     options |-> [cwd |-> "{projectRoot}"],
     cache |-> task.type \in cacheableTaskType,
     inputs |-> Lookup(createInputsMap(ctx), task.name),
     outputs |-> Outputs(outputDirs, task),
     dependsOn |-> Lookup(dependsOnMap, task.name)]

PushToGroupAlways(targetGroups, task) ==
    [g \in DOMAIN targetGroups \cup {task.type} |->
       IF g = task.type THEN <<task.name>> ELSE targetGroups[g]]

\* if (!targetGroups[task.type]) targetGroups[task.type] = [];
\* targetGroups[task.type].push(task.name);
PushToGroup(targetGroups, task) ==
    LET old == IF task.type \in DOMAIN targetGroups
               THEN targetGroups[task.type] ELSE << >>
    IN  [g \in DOMAIN targetGroups \cup {task.type} |->
           IF g = task.type THEN Append(old, task.name) ELSE targetGroups[g]]

\* One iteration of the for loop over tasks. acc = [threw, targets,
\* targetGroups]. outputDirs.get on undefined and push on an inherited
\* member of targetGroups raise a TypeError.
LoopBody(acc, task, projectRoot, options, ctx, outputDirs) ==
    IF acc.threw THEN acc
    ELSE IF ~outputDirs.defined THEN [acc EXCEPT !.threw = TRUE]
    ELSE
      LET targetName == TargetName(options, task)
          t == TargetOf(task, projectRoot, options, ctx, outputDirs)
          targets == [k \in DOMAIN acc.targets \cup {targetName} |->
                        IF k = targetName THEN t ELSE acc.targets[k]]
      IN  IF task.type \notin DOMAIN acc.targetGroups
             /\ task.type \in ObjectPrototypeKeys
          THEN [acc EXCEPT !.threw = TRUE, !.targets = targets]
          ELSE [threw |-> FALSE, targets |-> targets,
                targetGroups |-> PushToGroup(acc.targetGroups, task)]

RECURSIVE Loop(_, _, _, _, _, _, _)
Loop(acc, tasks, i, projectRoot, options, ctx, outputDirs) ==
    IF i > Len(tasks) THEN acc
    ELSE Loop(LoopBody(acc, tasks[i], projectRoot, options, ctx, outputDirs),
              tasks, i + 1, projectRoot, options, ctx, outputDirs)

createGradleTargetsSwallowing(tasks, projectRoot, options, ctx, outputDirs) ==
    [Loop([threw |-> FALSE, targets |-> EmptyObj, targetGroups |-> EmptyObj],
          tasks, 1, projectRoot, options, ctx, outputDirs)
       EXCEPT !.threw = FALSE]

createGradleTargets(tasks, projectRoot, options, ctx, outputDirs) ==
    Loop([threw |-> FALSE, targets |-> EmptyObj, targetGroups |-> EmptyObj],
         tasks, 1, projectRoot, options, ctx, outputDirs)

(***************************************************************************)
(* Workspace: build files, gradle report, hashing                          *)
(***************************************************************************)
\* Build files matched by **/build.{gradle.kts,gradle}, as path segments.
Files == {<<"app", "build.gradle">>, <<"libs", "core", "build.gradle.kts">>}

\* dirname(gradleFilePath)
dirname(path) == SubSeq(path, 1, Len(path) - 1)

GradleProject(f) == IF Len(f) = 2 THEN ":app" ELSE ":libs:core"

ProjectTasks ==
    <<[name |-> "build", type |-> "Build"],
      [name |-> "test", type |-> "Verification"],
      [name |-> "jar", type |-> "Build"]>>

FileOutputDirs == [defined |-> TRUE, map |-> [build |-> "build/libs"]]

NoOutputDirs == [defined |-> FALSE, map |-> EmptyObj]

\* What the report knows about one build file.
Scenarios ==
    {"ok", "inheritedName", "noProject", "noName", "emptyName", "noTasks",
     "noOutputDirs"}

Named(s) == s \in {"ok", "inheritedName", "emptyName", "noTasks", "noOutputDirs"}

\* A project with a task whose name is also a member of Object.prototype.
InheritedNameTasks ==
    <<[name |-> "build", type |-> "Build"],
      [name |-> "toString", type |-> "Other"]>>

\* The four maps of the gradle report for a workspace where build file f is
\* in situation scen[f].
ReportOf(scen) ==
    [gradleFileToGradleProjectMap |->
        [f \in {g \in Files : scen[g] # "noProject"} |-> GradleProject(f)],
     gradleProjectToProjectName |->
        [p \in {GradleProject(g) : g \in {h \in Files : Named(scen[h])}} |->
            IF \E g \in Files : GradleProject(g) = p /\ scen[g] = "emptyName"
            THEN "" ELSE p],
     gradleProjectToTasksTypeMap |->
        [p \in {GradleProject(g) :
                  g \in {h \in Files :
                           scen[h] \in {"ok", "inheritedName", "emptyName",
                                        "noOutputDirs"}}} |->
            IF \E g \in Files : GradleProject(g) = p /\ scen[g] = "inheritedName"
            THEN InheritedNameTasks ELSE ProjectTasks],
     gradleFileToOutputDirsMap |->
        [f \in {g \in Files :
                  scen[g] \in {"ok", "inheritedName", "emptyName", "noTasks"}} |->
            FileOutputDirs]]

\* Workspaces in which libs/core is a well-formed project and app is in any
\* of the situations.
Reports ==
    {ReportOf(scen) :
       scen \in {s \in [Files -> Scenarios] : s[<<"libs", "core", "build.gradle.kts">>] = "ok"}}

NoOptions == [defined |-> FALSE, map |-> EmptyObj]

Options(map) == [defined |-> TRUE, map |-> map]

OptionsChoices == {NoOptions, Options([build |-> "compile"])}

Context(defined, presets) ==
    [namedInputs |-> [defined |-> defined, presets |-> presets]]

ContextChoices ==
    {Context(FALSE, {}), Context(TRUE, {"default"}),
     Context(TRUE, {"default", "production"})}

WorkspaceContexts ==
    {Context(FALSE, {}), Context(TRUE, {"default", "production"})}

\* Contents of the files under a project root that take part in the hash.
FileContents == {"original", "edited"}

OtherContent(c) == IF c = "original" THEN "edited" ELSE "original"

\* calculateHashForCreateNodes(projectRoot, options ?? {}, context): a
\* collision-free digest of the project root's files, the options object and
\* the context.
calculateHashForCreateNodes(projectRoot, options, ctx, version) ==
    [root |-> projectRoot,
     files |-> version,
     options |-> IF options.defined THEN options.map ELSE EmptyObj,
     nxJson |-> ctx.namedInputs]

HashOf(f) ==
    calculateHashForCreateNodes(dirname(f), pluginOptions, context,
                                fileVersion[dirname(f)])

(***************************************************************************)
(* gradle.hash: writeJsonFile / readJsonFile                               *)
(***************************************************************************)
OptionalFields == {"inputs", "outputs", "dependsOn"}

TargetFields == {"command", "options", "cache"} \cup OptionalFields

\* JSON.stringify of a target: properties holding undefined or a function
\* are left out of the document.
JsonTarget(t) ==
    [k \in {j \in TargetFields :
              j \in OptionalFields => t[j].tag = "array"} |-> t[k]]

JsonBundle(b) ==
    [name |-> b.name,
     targets |-> [k \in DOMAIN b.targets |-> JsonTarget(b.targets[k])],
     targetGroups |-> b.targetGroups]

\* JSON.parse of a target: a key missing from the document is no property.
ParseTarget(d) ==
    [k \in TargetFields |-> IF k \in DOMAIN d THEN d[k] ELSE Absent]

ParseBundle(d) ==
    [name |-> d.name,
     targets |-> [k \in DOMAIN d.targets |-> ParseTarget(d.targets[k])],
     targetGroups |-> d.targetGroups]

writeJsonFileMerging(targets) ==
    [exists |-> TRUE,
     content |-> [h \in DOMAIN targets \cup DOMAIN targetsCache |->
                    IF h \in DOMAIN targets THEN JsonBundle(targets[h])
                    ELSE JsonBundle(targetsCache[h])]]

\* writeJsonFile(cachePath, targets)
writeJsonFile(targets) ==
    [exists |-> TRUE, content |-> [h \in DOMAIN targets |-> JsonBundle(targets[h])]]

\* existsSync(cachePath) ? readTargetsCache() : {}
readTargetsCache(file) ==
    IF file.exists
    THEN [h \in DOMAIN file.content |-> ParseBundle(file.content[h])]
    ELSE EmptyObj

\* What a reader of the bundle observes: every property read through Get.
Observed(b) ==
    [name |-> b.name,
     targets |-> [k \in DOMAIN b.targets |->
                    [j \in TargetFields |->
                       IF j \in OptionalFields THEN Get(b.targets[k][j])
                       ELSE b.targets[k][j]]],
     targetGroups |-> b.targetGroups]

(***************************************************************************)
(* createNodes                                                             *)
(***************************************************************************)
Roots == {dirname(f) : f \in Files}

NoResult == [kind |-> "none", projects |-> EmptyObj]

\* What createNodes hands back: an object with projects, undefined (return;),
\* the empty object {} of the catch block, or an exception leaving the call.
Projects(projectRoot, descriptor) ==
    [kind |-> "projects", projects |-> [r \in {projectRoot} |-> descriptor]]

ReturnUndefined == [kind |-> "undefined", projects |-> EmptyObj]

ReturnEmpty == [kind |-> "empty", projects |-> EmptyObj]

Thrown == [kind |-> "thrown", projects |-> EmptyObj]

metadata == [technologies |-> <<"gradle">>]

\* { ...targetsCache[hash], metadata: { technologies: ['gradle'] } }
HitDescriptorWithoutGroups(bundle) ==
    [name |-> bundle.name, targets |-> bundle.targets, metadata |-> metadata]

HitDescriptor(bundle) ==
    [name |-> bundle.name, targets |-> bundle.targets,
     targetGroups |-> bundle.targetGroups, metadata |-> metadata]

\* { name: projectName, targets, metadata: { technologies: ['gradle'] } }
MissDescriptor(projectName, targets) ==
    [name |-> projectName, targets |-> targets, metadata |-> metadata]

PutNothing(map, key, value) == map

PutAlone(map, key, value) == [k \in {key} |-> value]

Put(map, key, value) ==
    [k \in DOMAIN map \cup {key} |-> IF k = key THEN value ELSE map[k]]

\* if (targetsCache[hash])
IsCached(cache, hash) == hash \in DOMAIN cache

\* if (!projectName) return;
HasNameIfDefined(rep, gradleProject) ==
    gradleProject \in DOMAIN rep.gradleProjectToProjectName

HasName(rep, gradleProject) ==
    /\ gradleProject \in DOMAIN rep.gradleProjectToProjectName
    /\ rep.gradleProjectToProjectName[gradleProject] # ""

\* The body of createNodes after the hash is known: the new value of
\* calculatedTargets, the value returned, and which collaborators ran.
Outcome(kind, result, calc, reportCalls, targetsCalls) ==
    [outcome |-> kind, result |-> result, calculatedTargets |-> calc,
     reportCalls |-> reportCalls, targetsCalls |-> targetsCalls]

\* The try block: the report lookups, the rule engine and the store.
Try(f, hash, reportThrows) ==
    LET projectRoot == dirname(f) IN
    IF reportThrows
    THEN Outcome("failed", ReturnEmpty, calculatedTargets, 1, 0)
    ELSE
      LET mapped == f \in DOMAIN report.gradleFileToGradleProjectMap
          gradleProject == IF mapped THEN report.gradleFileToGradleProjectMap[f]
                           ELSE "undefined"
      IN
      IF ~(mapped /\ HasName(report, gradleProject))
      THEN Outcome("absent", ReturnUndefined, calculatedTargets, 1, 0)
      ELSE IF gradleProject \notin DOMAIN report.gradleProjectToTasksTypeMap
      THEN \* tasksTypeMap.entries() on undefined
           Outcome("failed", ReturnEmpty, calculatedTargets, 1, 0)
      ELSE
        LET projectName == report.gradleProjectToProjectName[gradleProject]
            tasks == report.gradleProjectToTasksTypeMap[gradleProject]
            outputDirs == IF f \in DOMAIN report.gradleFileToOutputDirsMap
                          THEN report.gradleFileToOutputDirsMap[f]
                          ELSE NoOutputDirs
            r == createGradleTargets(tasks, projectRoot, pluginOptions,
                                     context, outputDirs)
        IN  IF r.threw
            THEN Outcome("failed", ReturnEmpty, calculatedTargets, 1, 1)
            ELSE Outcome("miss",
                         Projects(projectRoot,
                                  MissDescriptor(projectName, r.targets)),
                         Put(calculatedTargets, hash,
                             [name |-> projectName, targets |-> r.targets,
                              targetGroups |-> r.targetGroups]),
                         1, 1)

\* The callback once the hash is known: the cache lookup, then the try block.
Body(f, hash, reportThrows) ==
    IF IsCached(targetsCache, hash)
    THEN Outcome("hit",
                 Projects(dirname(f), HitDescriptor(targetsCache[hash])),
                 Put(calculatedTargets, hash, targetsCache[hash]), 0, 0)
    ELSE Try(f, hash, reportThrows)

NoCall ==
    [file |-> << >>, hash |-> EmptyObj, outcome |-> "none", result |-> NoResult,
     reportThrew |-> FALSE, before |-> EmptyObj,
     reportCalls |-> 0, targetsCalls |-> 0]

\* Which external collaborator raises an exception during an invocation:
\* none, calculateHashForCreateNodes, or getGradleReport.
Faults == {"none", "hash", "report"}

CreateNodesStoringInCache(f, fault) ==
    /\ run >= 1
    /\ calls < MaxCalls
    /\ calls' = calls + 1
    /\ LET hash == HashOf(f)
           o == IF fault = "hash"
                THEN Outcome("thrown", Thrown, calculatedTargets, 0, 0)
                ELSE Body(f, hash, fault = "report")
       IN  /\ calculatedTargets' = o.calculatedTargets
           /\ targetsCache' =
                 IF o.outcome = "miss"
                 THEN Put(targetsCache, hash, o.calculatedTargets[hash])
                 ELSE targetsCache
           /\ touched' = IF o.outcome \in {"hit", "miss"}
                         THEN touched \cup {hash} ELSE touched
           /\ last' = [file |-> f, hash |-> hash, outcome |-> o.outcome,
                       result |-> o.result,
                       reportThrew |-> (o.reportCalls = 1 /\ fault = "report"),
                       before |-> calculatedTargets,
                       reportCalls |-> o.reportCalls,
                       targetsCalls |-> o.targetsCalls]
    /\ UNCHANGED <<cacheFile, fileVersion, report, pluginOptions, context, run,
                   engine>>

\* One invocation of the createNodes callback on build file f. The hash is
\* computed before the try block, so an exception of
\* calculateHashForCreateNodes leaves the callback.
CreateNodes(f, fault) ==
    /\ run >= 1
    /\ calls < MaxCalls
    /\ calls' = calls + 1
    /\ LET hash == HashOf(f)
           o == IF fault = "hash"
                THEN Outcome("thrown", Thrown, calculatedTargets, 0, 0)
                ELSE Body(f, hash, fault = "report")
       IN  /\ calculatedTargets' = o.calculatedTargets
           /\ touched' = IF o.outcome \in {"hit", "miss"}
                         THEN touched \cup {hash} ELSE touched
           /\ last' = [file |-> f, hash |-> hash, outcome |-> o.outcome,
                       result |-> o.result,
                       reportThrew |-> (o.reportCalls = 1 /\ fault = "report"),
                       before |-> calculatedTargets,
                       reportCalls |-> o.reportCalls,
                       targetsCalls |-> o.targetsCalls]
    /\ UNCHANGED <<cacheFile, targetsCache, fileVersion, report, pluginOptions,
                   context, run, engine>>

\* writeTargetsToCache(calculatedTargets), called by the host at the end of
\* a graph computation.
WriteTargetsToCache ==
    /\ run >= 1
    /\ cacheFile' = writeJsonFile(calculatedTargets)
    /\ cacheFile' # cacheFile
    /\ UNCHANGED <<targetsCache, calculatedTargets, fileVersion, report,
                   pluginOptions, context, last, touched, run, calls, engine>>

\* A new process loads the module: targetsCache is read from gradle.hash
\* and calculatedTargets starts empty.
StartProcess ==
    /\ run >= 1
    /\ run < MaxRuns
    /\ run' = run + 1
    /\ targetsCache' = readTargetsCache(cacheFile)
    /\ calculatedTargets' = EmptyObj
    /\ last' = NoCall
    /\ touched' = {}
    /\ UNCHANGED <<cacheFile, fileVersion, report, pluginOptions, context,
                   calls, engine>>

\* A file under a project root is edited, or the edit is reverted.
EditFile(root) ==
    /\ run >= 1
    /\ fileVersion' = [fileVersion EXCEPT ![root] = OtherContent(@)]
    /\ UNCHANGED <<cacheFile, targetsCache, calculatedTargets, report,
                   pluginOptions, context, last, touched, run, calls, engine>>

NoEngine ==
    [tasks |-> << >>, options |-> NoOptions, context |-> Context(FALSE, {}),
     outputDirs |-> NoOutputDirs, done |-> FALSE,
     result |-> [threw |-> FALSE, targets |-> EmptyObj, targetGroups |-> EmptyObj]]

Init ==
    /\ cacheFile = [exists |-> FALSE, content |-> EmptyObj]
    /\ targetsCache = readTargetsCache(cacheFile)
    /\ calculatedTargets = EmptyObj
    /\ fileVersion = [r \in Roots |-> "original"]
    /\ report \in Reports
    /\ pluginOptions \in OptionsChoices
    /\ context \in WorkspaceContexts
    /\ last = NoCall
    /\ touched = {}
    /\ run = 1
    /\ calls = 0
    /\ engine = NoEngine

Next ==
    \/ \E f \in Files, fault \in Faults : CreateNodes(f, fault)
    \/ WriteTargetsToCache
    \/ StartProcess
    \/ \E root \in Roots : EditFile(root)

Spec == Init /\ [][Next]_vars

(***************************************************************************)
(* The rule engine on its own: createGradleTargets applied to bounded      *)
(* task lists, options, contexts and output-directory maps.                *)
(***************************************************************************)
TaskNames == {"build", "test", "classes", "jar", "constructor"}

TaskTypes == {"Build", "Verification", "Other", "constructor"}

Tasks == [name : TaskNames, type : TaskTypes]

\* Entries of a Map<string, string>: the task names are pairwise distinct.
DistinctNames(tasks) ==
    \A i, j \in 1..Len(tasks) : tasks[i].name = tasks[j].name => i = j

TaskLists ==
    UNION {{tasks \in [1..n -> Tasks] : DistinctNames(tasks)} : n \in 0..MaxTasks}

EngineOptions ==
    {NoOptions, Options(EmptyObj), Options([build |-> "compile"]),
     Options([build |-> "test"]), Options([jar |-> "build", test |-> "check"])}

EngineOutputDirs ==
    {NoOutputDirs,
     [defined |-> TRUE, map |-> EmptyObj],
     [defined |-> TRUE, map |-> [build |-> "build/libs", test |-> ""]]}

EngineRoot == <<"app">>

InitTargets ==
    /\ cacheFile = [exists |-> FALSE, content |-> EmptyObj]
    /\ targetsCache = EmptyObj
    /\ calculatedTargets = EmptyObj
    /\ fileVersion = [r \in Roots |-> "original"]
    /\ report = ReportOf([f \in Files |-> "ok"])
    /\ pluginOptions = NoOptions
    /\ context = Context(FALSE, {})
    /\ last = NoCall
    /\ touched = {}
    /\ run = 0
    /\ calls = 0
    /\ \E tasks \in TaskLists, options \in EngineOptions,
          ctx \in ContextChoices, outputDirs \in EngineOutputDirs :
          engine = [tasks |-> tasks, options |-> options, context |-> ctx,
                    outputDirs |-> outputDirs, done |-> FALSE,
                    result |-> NoEngine.result]

\* const { targets, targetGroups } = createGradleTargets(...)
RunCreateGradleTargets ==
    /\ run = 0
    /\ ~engine.done
    /\ engine' = [engine EXCEPT
                    !.done = TRUE,
                    !.result = createGradleTargets(engine.tasks, EngineRoot,
                                                   engine.options, engine.context,
                                                   engine.outputDirs)]
    /\ UNCHANGED <<cacheFile, targetsCache, calculatedTargets, fileVersion,
                   report, pluginOptions, context, last, touched, run, calls>>

NextTargets == RunCreateGradleTargets

SpecTargets == InitTargets /\ [][NextTargets]_vars

(***************************************************************************)
(* Properties of createNodes and the targets cache                         *)
(***************************************************************************)
\* The latest invocation got as far as the cache lookup.
HashComputed == last.outcome \notin {"none", "thrown"}

\* C1: whenever the computed hash of an invocation is a key of the cache
\* loaded at process start, the invocation returns exactly one project, keyed
\* by the directory of the build file, whose content is the cached bundle
\* with metadata.technologies = ['gradle'] added, and getGradleReport is not
\* invoked.
C1_CacheHit ==
    (HashComputed /\ last.hash \in DOMAIN targetsCache) =>
        LET bundle == targetsCache[last.hash]
            root == SubSeq(last.file, 1, Len(last.file) - 1)
        IN  /\ last.result.kind = "projects"
            /\ DOMAIN last.result.projects = {root}
            /\ last.result.projects[root] =
                 [k \in DOMAIN bundle \cup {"metadata"} |->
                    IF k = "metadata" THEN [technologies |-> <<"gradle">>]
                    ELSE bundle[k]]
            /\ last.reportCalls = 0

C1_Witness ==
    /\ HashComputed
    /\ last.hash \in DOMAIN targetsCache
    /\ last.result.kind = "projects"

\* C2: an invocation whose hash was stored in calculatedTargets by an earlier
\* cache miss of the same process is a cache hit: it invokes neither
\* getGradleReport nor createGradleTargets.
C2_PutVisible ==
    (HashComputed /\ last.hash \in DOMAIN last.before \ DOMAIN targetsCache) =>
        /\ last.outcome = "hit"
        /\ last.reportCalls = 0
        /\ last.targetsCalls = 0

\* C3: a cache hit in a later process uses a bundle identical (every
\* property of name, targets and targetGroups reads the same) to the bundle
\* the cache miss computes for the same file and unchanged hash.
C3_IdempotentAcrossRuns ==
    (run >= 2 /\ last.outcome = "hit") =>
        LET o == Try(last.file, last.hash, FALSE)
        IN  o.outcome = "miss" =>
              Observed(calculatedTargets[last.hash]) =
                Observed(o.calculatedTargets[last.hash])

\* C4: no exception of an invocation ever reaches the caller.
C4_NoExceptionPropagates == last.outcome # "thrown"

\* The report has no display name for the gradle project of build file f.
NoDisplayName(f) ==
    \/ f \notin DOMAIN report.gradleFileToGradleProjectMap
    \/ report.gradleFileToGradleProjectMap[f]
         \notin DOMAIN report.gradleProjectToProjectName
    \/ report.gradleProjectToProjectName[report.gradleFileToGradleProjectMap[f]] = ""

\* C5: on a cache miss for which the report is obtained and holds no display
\* name for the file's gradle project, createNodes returns undefined (not
\* the empty object), raises nothing, does not call createGradleTargets and
\* leaves calculatedTargets as it was.
C5_MissingProjectName ==
    (/\ HashComputed
     /\ last.hash \notin DOMAIN targetsCache
     /\ ~last.reportThrew
     /\ NoDisplayName(last.file)) =>
        /\ last.result.kind = "undefined"
        /\ last.targetsCalls = 0
        /\ calculatedTargets = last.before
        /\ last.hash \in DOMAIN calculatedTargets => last.hash \in DOMAIN last.before

C5_Witness ==
    /\ HashComputed
    /\ last.hash \notin DOMAIN targetsCache
    /\ ~last.reportThrew
    /\ NoDisplayName(last.file)
    /\ last.result.kind = "undefined"
    /\ last.reportCalls = 1

(***************************************************************************)
(* Properties of createGradleTargets                                       *)
(***************************************************************************)
\* createGradleTargets returned (it did not raise).
Returned == engine.done /\ ~engine.result.threw

\* The key the options give the target of a task.
KeyOf(task) ==
    IF engine.options.defined /\ task.name \in DOMAIN engine.options.map
    THEN engine.options.map[task.name]
    ELSE task.name

\* The task a target of the result was made from: the last task of the list
\* whose key is k.
Origin(k) ==
    engine.tasks[CHOOSE i \in 1..Len(engine.tasks) :
                   /\ KeyOf(engine.tasks[i]) = k
                   /\ \A j \in (i + 1)..Len(engine.tasks) :
                        KeyOf(engine.tasks[j]) # k]

\* C6: the targets mapping has exactly as many keys as there are tasks.
C6_OneTargetPerTask ==
    Returned => Cardinality(DOMAIN engine.result.targets) = Len(engine.tasks)

\* C7: the cache flag of every target is true exactly when the type of the
\* task it was made from is Build or Verification, whatever the options.
C7_Cacheability ==
    Returned =>
        \A k \in DOMAIN engine.result.targets :
            engine.result.targets[k].cache =
                (Origin(k).type \in {"Build", "Verification"})

C7_Witness ==
    /\ Returned
    /\ \E k, m \in DOMAIN engine.result.targets :
          /\ engine.result.targets[k].cache
          /\ k # Origin(k).name
          /\ ~engine.result.targets[m].cache
          /\ Origin(m).name = "build"

\* C8: dependsOn of every target is given by the name of the task it was
\* made from: build, test and classes have their table entry, every other
\* task name leaves it unset.
C8_DependsOnTable ==
    Returned =>
        \A k \in DOMAIN engine.result.targets :
            engine.result.targets[k].dependsOn =
                CASE Origin(k).name = "build" -> Arr(<<"^build", "classes">>)
                  [] Origin(k).name = "test" -> Arr(<<"classes">>)
                  [] Origin(k).name = "classes" -> Arr(<<"^classes">>)
                  [] OTHER -> Undefined

\* C9: the key of a task's target is the <name>TargetName option when it is
\* present and the task name otherwise, and the override changes the key
\* only: the target is the one the same call makes without options for the
\* task's own name, its command runs the task's own name, and targetGroups
\* is what it is without options.
C9_RenameOverride ==
    Returned =>
        LET plain == createGradleTargets(engine.tasks, EngineRoot, NoOptions,
                                         engine.context, engine.outputDirs)
        IN  /\ DOMAIN engine.result.targets =
                 {KeyOf(engine.tasks[i]) : i \in 1..Len(engine.tasks)}
            /\ \A k \in DOMAIN engine.result.targets :
                 /\ engine.result.targets[k] = plain.targets[Origin(k).name]
                 /\ engine.result.targets[k].command.task = Origin(k).name
            /\ engine.result.targetGroups = plain.targetGroups
            /\ \A i \in 1..Len(engine.tasks) :
                 \E n \in 1..Len(engine.result.targetGroups[engine.tasks[i].type]) :
                    engine.result.targetGroups[engine.tasks[i].type][n] =
                        engine.tasks[i].name

C9_Witness ==
    /\ Returned
    /\ \E i \in 1..Len(engine.tasks) :
          /\ engine.tasks[i].name = "build"
          /\ KeyOf(engine.tasks[i]) = "compile"
          /\ "compile" \in DOMAIN engine.result.targets
          /\ "build" \notin DOMAIN engine.result.targets
          /\ engine.result.targets["compile"].dependsOn.tag = "array"

\* C10: inputs of every target is given by the name of the task it was made
\* from and by whether the workspace defines the production named input;
\* every task name other than build, test and classes leaves it unset.
C10_InputsTable ==
    Returned =>
        LET production == /\ engine.context.namedInputs.defined
                          /\ "production" \in engine.context.namedInputs.presets
        IN  \A k \in DOMAIN engine.result.targets :
              engine.result.targets[k].inputs =
                CASE Origin(k).name = "build" ->
                       IF production THEN Arr(<<"production", "^production">>)
                       ELSE Arr(<<"default", "^default">>)
                  [] Origin(k).name = "test" ->
                       IF production THEN Arr(<<"default", "^production">>)
                       ELSE Arr(<<"default", "^default">>)
                  [] Origin(k).name = "classes" -> Arr(<<"default", "^default">>)
                  [] OTHER -> Undefined

\* C11: outputs of every target is the one-element list [d] exactly when the
\* output-directory map has an entry d for the name of the task it was made
\* from, whatever d is, and is unset exactly when the map has no such entry.
C11_Outputs ==
    Returned =>
        \A k \in DOMAIN engine.result.targets :
            engine.result.targets[k].outputs =
                IF Origin(k).name \in DOMAIN engine.outputDirs.map
                THEN Arr(<<engine.outputDirs.map[Origin(k).name]>>)
                ELSE Undefined

\* The latest invocation missed the cache, found a display name for the
\* file's gradle project and ended without an exception.
SuccessfulMiss ==
    /\ HashComputed
    /\ last.hash \notin DOMAIN targetsCache
    /\ ~last.reportThrew
    /\ ~NoDisplayName(last.file)
    /\ last.result.kind # "empty"

\* C12: a cache miss with a resolvable project name and no exception stores
\* the bundle {name, targets, targetGroups} the rule engine produces under
\* the file's hash in calculatedTargets, and returns exactly one project,
\* keyed by the directory of the build file, holding that name, those
\* targets and metadata.technologies = ['gradle'].
C12_MissStoresAndReturns ==
    SuccessfulMiss =>
        LET root == SubSeq(last.file, 1, Len(last.file) - 1)
            project == report.gradleFileToGradleProjectMap[last.file]
            name == report.gradleProjectToProjectName[project]
            r == createGradleTargets(
                     report.gradleProjectToTasksTypeMap[project], root,
                     pluginOptions, context,
                     report.gradleFileToOutputDirsMap[last.file])
        IN  /\ last.hash \in DOMAIN calculatedTargets
            /\ calculatedTargets[last.hash] =
                 [name |-> name, targets |-> r.targets,
                  targetGroups |-> r.targetGroups]
            /\ last.result.kind = "projects"
            /\ DOMAIN last.result.projects = {root}
            /\ last.result.projects[root] =
                 [name |-> name, targets |-> r.targets,
                  metadata |-> [technologies |-> <<"gradle">>]]

C12_Witness ==
    /\ SuccessfulMiss
    /\ last.result.kind = "projects"
    /\ last.targetsCalls = 1
    /\ last.hash \notin DOMAIN last.before
    /\ last.hash \in DOMAIN calculatedTargets

\* The build file of a project root.
FileOfRoot(root) == CHOOSE f \in Files : SubSeq(f, 1, Len(f) - 1) = root

\* The entry a hash has in calculatedTargets whatever was processed before:
\* the loaded bundle on a hit, the computed bundle on a miss.
EntryFor(h) ==
    IF h \in DOMAIN targetsCache THEN targetsCache[h]
    ELSE Try(FileOfRoot(h.root), h, FALSE).calculatedTargets[h]

\* C13: an invocation adds, removes or changes no entry of calculatedTargets
\* but that of its own hash; what it returns does not depend on the
\* invocations made before it; and every entry of calculatedTargets is the
\* one its hash determines, so the content of calculatedTargets depends on
\* which files were processed and not on their order.
C13_OrderIndependence ==
    HashComputed =>
        /\ \A h \in DOMAIN last.before :
              h # last.hash =>
                 /\ h \in DOMAIN calculatedTargets
                 /\ calculatedTargets[h] = last.before[h]
        /\ \A h \in DOMAIN calculatedTargets :
              h # last.hash => h \in DOMAIN last.before
        /\ last.result = Body(last.file, last.hash, last.reportThrew).result
        /\ \A h \in DOMAIN calculatedTargets :
              /\ h \notin DOMAIN targetsCache =>
                    Try(FileOfRoot(h.root), h, FALSE).outcome = "miss"
              /\ calculatedTargets[h] = EntryFor(h)

C13_Witness ==
    /\ HashComputed
    /\ Cardinality(DOMAIN calculatedTargets) = 2
    /\ Cardinality(DOMAIN last.before) = 1
    /\ last.hash \notin DOMAIN last.before
    /\ last.result.kind = "projects"

\* The names of the tasks of one type, in the order of the task list.
RECURSIVE NamesOfType(_, _)
NamesOfType(tasks, type) ==
    IF tasks = << >> THEN << >>
    ELSE LET rest == NamesOfType(Tail(tasks), type)
         IN  IF Head(tasks).type = type THEN <<Head(tasks).name>> \o rest
             ELSE rest

C15_LoadedCacheReadOnly ==
    [][run' = run =>
         /\ targetsCache' = targetsCache
         /\ \A h \in DOMAIN calculatedTargets :
               /\ h \in DOMAIN calculatedTargets'
               /\ \/ calculatedTargets'[h] = calculatedTargets[h]
                  \/ /\ calls' = calls + 1
                     /\ h = last'.hash
                     /\ last'.outcome \in {"hit", "miss"}
                     /\ calculatedTargets'[h] =
                          IF last'.outcome = "hit" THEN targetsCache[h]
                          ELSE Try(last'.file, h, FALSE).calculatedTargets[h]]_vars

C15_Witness ==
    /\ run = 2
    /\ targetsCache # EmptyObj
    /\ calls = 2
    /\ last.outcome \in {"miss", "absent", "failed", "thrown"}

\* Bundle b is a complete bundle of the project of build file f: it carries
\* the project's display name, a target under the key of every task of the
\* project and every task name in the group of its type.
CompleteBundle(b, f) ==
    /\ f \in DOMAIN report.gradleFileToGradleProjectMap
    /\ LET project == report.gradleFileToGradleProjectMap[f]
       IN  /\ project \in DOMAIN report.gradleProjectToProjectName
           /\ project \in DOMAIN report.gradleProjectToTasksTypeMap
           /\ b.name = report.gradleProjectToProjectName[project]
           /\ LET tasks == report.gradleProjectToTasksTypeMap[project]
                  key(t) == IF pluginOptions.defined
                               /\ t.name \in DOMAIN pluginOptions.map
                            THEN pluginOptions.map[t.name] ELSE t.name
              IN  /\ DOMAIN b.targets = {key(tasks[i]) : i \in 1..Len(tasks)}
                  /\ \A i \in 1..Len(tasks) :
                        /\ tasks[i].type \in DOMAIN b.targetGroups
                        /\ \E n \in 1..Len(b.targetGroups[tasks[i].type]) :
                              b.targetGroups[tasks[i].type][n] = tasks[i].name

\* C16: an invocation that ends in the catch block (it returns {}) leaves
\* calculatedTargets exactly as it was, and every entry of calculatedTargets
\* is a bundle copied from the loaded cache or a complete bundle of a rule
\* engine run that returned.
C16_UnchangedOnFailure ==
    /\ last.result.kind = "empty" => calculatedTargets = last.before
    /\ \A h \in DOMAIN calculatedTargets :
          IF h \in DOMAIN targetsCache
          THEN calculatedTargets[h] = targetsCache[h]
          ELSE CompleteBundle(calculatedTargets[h], FileOfRoot(h.root))

C16_Witness ==
    /\ last.result.kind = "empty"
    /\ last.targetsCalls = 1
    /\ last.before # EmptyObj
    /\ calculatedTargets = last.before

\* C17: the keys of calculatedTargets are exactly the hashes of the
\* invocations of this process that were a cache hit or a miss that stored a
\* bundle, and writeTargetsToCache(calculatedTargets) leaves in gradle.hash
\* exactly those keys: an entry of the previously persisted cache whose hash
\* this process did not hit is gone.
C17_FlushKeepsTouched ==
    /\ [](DOMAIN calculatedTargets = touched)
    /\ [][cacheFile' # cacheFile =>
            /\ cacheFile'.exists
            /\ DOMAIN cacheFile'.content = touched
            /\ \A h \in DOMAIN targetsCache :
                  h \notin touched => h \notin DOMAIN cacheFile'.content]_vars

C17_Witness ==
    /\ run = 2
    /\ last.outcome = "miss"
    /\ touched = {last.hash}
    /\ cacheFile.exists
    /\ DOMAIN cacheFile.content = touched
    /\ \E h \in DOMAIN targetsCache : h \notin DOMAIN cacheFile.content

\* The targets of a descriptor as a reader sees them.
ObservedTargets(targets) ==
    [k \in DOMAIN targets |->
       [j \in TargetFields |->
          IF j \in OptionalFields THEN Get(targets[k][j]) ELSE targets[k][j]]]

\* C18: the descriptor a cache hit returns has exactly the fields and values
\* (name, targets, metadata) of the descriptor returned by the cache miss
\* that computes the bundle for the same file and hash.
C18_HitSameAsMiss ==
    (/\ run >= 2
     /\ HashComputed
     /\ last.hash \in DOMAIN targetsCache
     /\ Try(last.file, last.hash, FALSE).outcome = "miss") =>
        LET root == SubSeq(last.file, 1, Len(last.file) - 1)
            hit == last.result.projects[root]
            miss == Try(last.file, last.hash, FALSE).result.projects[root]
        IN  /\ DOMAIN hit = DOMAIN miss
            /\ hit.name = miss.name
            /\ ObservedTargets(hit.targets) = ObservedTargets(miss.targets)
            /\ hit.metadata = miss.metadata

\* The dependsOn entries of the table that refer to upstream projects: the
\* ones written with the '^' prefix.
UpstreamEntries == {"^build", "^classes"}

\* C19: in every bundle createGradleTargets returns, each dependsOn entry
\* without the '^' prefix is the key of a target of that same bundle.
C19_NoDanglingDependsOn ==
    Returned =>
        \A k \in DOMAIN engine.result.targets :
            LET d == engine.result.targets[k].dependsOn
            IN  d.tag = "array" =>
                    \A i \in 1..Len(d.items) :
                        d.items[i] \notin UpstreamEntries =>
                            d.items[i] \in DOMAIN engine.result.targets

====
